---- MODULE Spec2Model ----
(***************************************************************************)
(* tools/provision.py: the development-environment provisioning script.    *)
(* The script is one sequential process.  Its module-level statements      *)
(* (lines 43-68) gate the run on the git checkout, the CPU architecture    *)
(* and the (vendor, codename) of the host; main() (lines 120-217) then     *)
(* issues a fixed sequence of external commands, two of them wrapped in a  *)
(* try/except that retries once.  The outcome of every external command    *)
(* (exit status zero or not) is an input of the model.                     *)
(***************************************************************************)
EXTENDS Integers, Sequences, FiniteSets, TLC

VARIABLES
    TRAVIS,               \* "--travis" in sys.argv
    PRODUCTION_TRAVIS,    \* "--production-travis" in sys.argv
    DOCKER,               \* "--docker" in sys.argv
    PY2,                  \* sys.version_info[0] == 2
    host,                 \* the machine: .git present, architecture, lsb_release answers
    initial_fs,           \* the resources on the machine before the first invocation
    arch,                 \* module variable arch
    vendor,               \* module variable vendor   ("" until line 64 has run)
    codename,             \* module variable codename ("" until line 65 has run)
    POSTGRES_VERSION,     \* module variable POSTGRES_VERSION ("" until line 74 has run)
    pc,                   \* position of the interpreter
    idx,                  \* index of the next statement in the current statement list
    log,                  \* the external commands and calls issued in this run, in order
    stdout,               \* what this run printed or logged
    error,                \* the uncaught exception that ended the run, or NoError
    exit_code,            \* the process exit status (meaningful when pc = "exited")
    fs,                   \* the provisioned resources on the machine
    node_modules_islink,  \* os.path.islink("node_modules")
    invocation,           \* how many times the script has been started on this machine
    previous_exit         \* exit status of the previous invocation (-1: there was none)

vars == <<TRAVIS, PRODUCTION_TRAVIS, DOCKER, PY2, host, initial_fs, arch, vendor, codename,
          POSTGRES_VERSION, pc, idx, log, stdout, error, exit_code, fs, node_modules_islink, invocation,
          previous_exit>>

flagvars == <<TRAVIS, PRODUCTION_TRAVIS, DOCKER, PY2, host, initial_fs>>

(***************************************************************************)
(* Bounds of the model.                                                    *)
(***************************************************************************)
MaxInvocations == 2

Vendors   == {"Ubuntu", "Debian"}
Codenames == {"trusty", "xenial", "jessie"}
Architectures == {"64bit", "32bit", "ELF"}

(***************************************************************************)
(* Module-level constants of provision.py.                                 *)
(***************************************************************************)
\* lines 21-26 with a release added that the other tables do not have
SupportedPlatformsExtraRelease == [v \in {"Ubuntu"} |-> {"trusty", "xenial", "jessie"}]

SUPPORTED_PLATFORMS == [v \in {"Ubuntu"} |-> {"trusty", "xenial"}]

ZULIP_PATH    == "/srv/zulip"
PY2_VENV_PATH == "/srv/zulip-venv"
PY3_VENV_PATH == "/srv/zulip-py3-venv"
VAR_DIR_PATH  == ZULIP_PATH \o "/var"
LOG_DIR_PATH  == VAR_DIR_PATH \o "/log"
UPLOAD_DIR_PATH == VAR_DIR_PATH \o "/uploads"
TEST_UPLOAD_DIR_PATH == VAR_DIR_PATH \o "/test_uploads"
COVERAGE_DIR_PATH == VAR_DIR_PATH \o "/coverage"
LINECOVERAGE_DIR_PATH == VAR_DIR_PATH \o "/linecoverage-report"
NODE_TEST_COVERAGE_DIR_PATH == VAR_DIR_PATH \o "/node-coverage"

VENV_PATH(py2) == IF py2 THEN PY2_VENV_PATH ELSE PY3_VENV_PATH

\* lines 70-73 with the xenial entry left at the trusty version
PostgresVersionMapStale == [c \in {"trusty", "xenial"} |-> "9.3"]

POSTGRES_VERSION_MAP == [c \in {"trusty", "xenial"} |->
                            IF c = "trusty" THEN "9.3" ELSE "9.5"]

\* imported from scripts.lib.setup_venv; its elements are not known here
VENV_DEPENDENCIES == <<"VENV_DEPENDENCIES">>

UBUNTU_COMMON_APT_DEPENDENCIES ==
    << "closure-compiler", "memcached", "rabbitmq-server", "redis-server",
       "hunspell-en-us", "supervisor", "git", "libssl-dev", "yui-compressor",
       "wget", "ca-certificates", "puppet", "gettext", "curl", "netcat" >>
    \o VENV_DEPENDENCIES

APT_DEPENDENCIES == [c \in {"trusty", "xenial"} |->
    IF c = "trusty"
    THEN UBUNTU_COMMON_APT_DEPENDENCIES \o
         <<"postgresql-9.3", "postgresql-9.3-tsearch-extras", "postgresql-9.3-pgroonga">>
    ELSE UBUNTU_COMMON_APT_DEPENDENCIES \o
         <<"postgresql-9.5", "postgresql-9.5-tsearch-extras", "postgresql-9.5-pgroonga">>]

TSEARCH_STOPWORDS_PATH(version) ==
    "/usr/share/postgresql/" \o version \o "/tsearch_data/"

REPO_STOPWORDS_PATH == ZULIP_PATH \o "/puppet/zulip/files/postgresql/zulip_english.stop"

BASH_PROFILE == "~/.bash_profile"

WARNING_GROONGA == "Could not add groonga; retrying..."
WARNING_NPM     == "npm install failed; retrying..."
SUCCESS_MESSAGE == "Zulip development environment setup succeeded!"

(***************************************************************************)
(* Statements.  A statement is the source line it stands on, the way it    *)
(* reaches the outside world (run, check_call, subprocess_text_output, a   *)
(* call of an imported function, an open() of a file, or one of the two    *)
(* try/except sites) and its argument vector.                              *)
(***************************************************************************)
St(line, kind, argv) == [line |-> line, kind |-> kind, argv |-> argv]

Arg(argv, i) == IF i <= Len(argv) THEN argv[i] ELSE ""

\* lines 62-65: the commands issued before the platform is known
ModuleCommands ==
    << St(62, "check_call", <<"sudo", "apt-get", "update">>),
       St(63, "check_call", <<"sudo", "apt-get", "install", "-y",
                              "lsb-release", "software-properties-common">>),
       St(64, "subprocess_text_output", <<"lsb_release", "-is">>),
       St(65, "subprocess_text_output", <<"lsb_release", "-cs">>) >>

ADD_GROONGA == <<"sudo", "add-apt-repository", "-y", "ppa:groonga/ppa">>
RM_NODE_MODULES == <<"sudo", "rm", "-f", "node_modules">>
SETUP_NODE_MODULES == <<"setup_node_modules">>

\* lines 127-134
RepositorySteps ==
    << St(127, "run", <<"sudo", "./scripts/lib/setup-apt-repo">>),
       St(130, "try", ADD_GROONGA) >>

\* APT_DEPENDENCIES[codename] of line 137 (a KeyError when the key is missing)
AptDependenciesFor(c) ==
    IF c \in DOMAIN APT_DEPENDENCIES THEN APT_DEPENDENCIES[c] ELSE <<"KeyError">>

\* lines 136-137 in the opposite order
PackageStepsInstallFirst(c) ==
    << St(137, "run", <<"sudo", "apt-get", "-y", "install", "--no-install-recommends">>
                      \o AptDependenciesFor(c)),
       St(136, "run", <<"sudo", "apt-get", "update">>) >>

\* lines 136-137
PackageSteps(c) ==
    << St(136, "run", <<"sudo", "apt-get", "update">>),
       St(137, "run", <<"sudo", "apt-get", "-y", "install", "--no-install-recommends">>
                      \o AptDependenciesFor(c)) >>

\* lines 139-154
VirtualenvSteps(travis, py2) ==
    IF travis
    THEN IF py2
         THEN << St(142, "call", <<"setup_virtualenv", PY3_VENV_PATH,
                                   ZULIP_PATH \o "/requirements/mypy.txt">>),
                 St(145, "call", <<"setup_virtualenv", PY2_VENV_PATH,
                                   ZULIP_PATH \o "/requirements/py2_dev.txt">>) >>
         ELSE << St(148, "call", <<"setup_virtualenv", VENV_PATH(py2),
                                   ZULIP_PATH \o "/requirements/py3_dev.txt">>) >>
    ELSE << St(154, "call", <<"setup_venvs.main">>) >>

\* line 157 with the file opened for appending
ProfileOpenModeAppend == "a"

\* line 157: the mode .bash_profile is opened with
ProfileOpenMode == "w+"

\* lines 157-180
ResourceSteps(version, py2) ==
    << St(157, "open", <<BASH_PROFILE, ProfileOpenMode>>),
       St(163, "run", <<"sudo", "cp", REPO_STOPWORDS_PATH, TSEARCH_STOPWORDS_PATH(version)>>),
       St(166, "run", <<"mkdir", "-p", LOG_DIR_PATH>>),
       St(168, "run", <<"mkdir", "-p", UPLOAD_DIR_PATH>>),
       St(170, "run", <<"mkdir", "-p", TEST_UPLOAD_DIR_PATH>>),
       St(172, "run", <<"mkdir", "-p", COVERAGE_DIR_PATH>>),
       St(174, "run", <<"mkdir", "-p", LINECOVERAGE_DIR_PATH>>),
       St(176, "run", <<"mkdir", "-p", NODE_TEST_COVERAGE_DIR_PATH>>),
       St(178, "run", <<"tools/setup/download-zxcvbn">>),
       St(179, "run", <<"tools/setup/emoji_dump/build_emoji">>),
       St(180, "run", <<"scripts/setup/generate_secrets.py", "--development">>) >>

\* lines 181-190 with the docker branch tested on its own instead of in an elif
ServiceStepsIndependentBranches(travis, production_travis, docker, version) ==
    (IF travis /\ ~production_travis
     THEN << St(182, "run", <<"sudo", "service", "rabbitmq-server", "restart">>),
             St(183, "run", <<"sudo", "service", "redis-server", "restart">>),
             St(184, "run", <<"sudo", "service", "memcached", "restart">>) >>
     ELSE << >>)
    \o
    (IF docker
     THEN << St(186, "run", <<"sudo", "service", "rabbitmq-server", "restart">>),
             St(187, "run", <<"sudo", "pg_dropcluster", "--stop", version, "main">>),
             St(188, "run", <<"sudo", "pg_createcluster", "-e", "utf8", "--start",
                              version, "main">>),
             St(189, "run", <<"sudo", "service", "redis-server", "restart">>),
             St(190, "run", <<"sudo", "service", "memcached", "restart">>) >>
     ELSE << >>)

\* lines 181-190
ServiceSteps(travis, production_travis, docker, version) ==
    IF travis /\ ~production_travis
    THEN << St(182, "run", <<"sudo", "service", "rabbitmq-server", "restart">>),
            St(183, "run", <<"sudo", "service", "redis-server", "restart">>),
            St(184, "run", <<"sudo", "service", "memcached", "restart">>) >>
    ELSE IF docker
    THEN << St(186, "run", <<"sudo", "service", "rabbitmq-server", "restart">>),
            St(187, "run", <<"sudo", "pg_dropcluster", "--stop", version, "main">>),
            St(188, "run", <<"sudo", "pg_createcluster", "-e", "utf8", "--start",
                             version, "main">>),
            St(189, "run", <<"sudo", "service", "redis-server", "restart">>),
            St(190, "run", <<"sudo", "service", "memcached", "restart">>) >>
    ELSE << >>

\* lines 191-198
DatabaseSteps(production_travis) ==
    IF ~production_travis
    THEN << St(193, "run", <<"scripts/setup/configure-rabbitmq">>),
            St(194, "run", <<"tools/setup/postgres-init-dev-db">>),
            St(195, "run", <<"tools/do-destroy-rebuild-database">>),
            St(196, "run", <<"tools/setup/postgres-init-test-db">>),
            St(197, "run", <<"tools/do-destroy-rebuild-test-database">>),
            St(198, "run", <<"python", "./manage.py", "compilemessages">>) >>
    ELSE << >>

\* lines 201-213
NodeSteps ==
    << St(201, "run", <<"sudo", "tools/setup/install-node">>),
       St(205, "try", SETUP_NODE_MODULES) >>

\* main() with the node installation placed with the other environment setup
MainStepsNodeWithEnvironment(travis, production_travis, docker, py2, c, version) ==
    RepositorySteps \o PackageSteps(c) \o VirtualenvSteps(travis, py2) \o NodeSteps
    \o ResourceSteps(version, py2)
    \o ServiceSteps(travis, production_travis, docker, version)
    \o DatabaseSteps(production_travis)

\* the statements of main() for the flags and platform of the run, in order
MainSteps(travis, production_travis, docker, py2, c, version) ==
    RepositorySteps \o PackageSteps(c) \o VirtualenvSteps(travis, py2)
    \o ResourceSteps(version, py2)
    \o ServiceSteps(travis, production_travis, docker, version)
    \o DatabaseSteps(production_travis) \o NodeSteps

Plan == MainSteps(TRAVIS, PRODUCTION_TRAVIS, DOCKER, PY2, codename, POSTGRES_VERSION)

(***************************************************************************)
(* The provisioned resources and what a successful command does to them.   *)
(***************************************************************************)
StopwordPaths == {TSEARCH_STOPWORDS_PATH(POSTGRES_VERSION_MAP[c]) : c \in DOMAIN POSTGRES_VERSION_MAP}

FreshMachine ==
    [sources |-> << >>, packages |-> {}, dirs |-> {}, profile |-> << >>,
     stopwords |-> [p \in StopwordPaths |-> ""], clusters |-> {}]

UsedMachine ==
    [sources |-> << >>, packages |-> {"git"}, dirs |-> {VAR_DIR_PATH, LOG_DIR_PATH},
     profile |-> <<"export EDITOR=vi">>,
     stopwords |-> [p \in StopwordPaths |-> "stale"], clusters |-> {}]

Range(seq) == {seq[i] : i \in 1..Len(seq)}

\* lines 158-161: the lines written to .bash_profile
ProfileLines(py2) ==
    <<"source .bashrc", "source " \o VENV_PATH(py2) \o "/bin/activate">>

\* lines 157-161 with the old content kept whatever the mode
WriteBashProfileKeepsOld(f, mode, py2) ==
    [f EXCEPT !.profile = @ \o ProfileLines(py2)]

\* lines 157-161: open(..., mode) then writelines
WriteBashProfile(f, mode, py2) ==
    [f EXCEPT !.profile = IF mode = "w+" THEN ProfileLines(py2)
                          ELSE @ \o ProfileLines(py2)]

\* lines 166-176: mkdir [-p] path
Mkdir(f, argv) ==
    [f EXCEPT !.dirs = IF Arg(argv, 2) = "-p"
                       THEN @ \cup {argv[Len(argv)], VAR_DIR_PATH}
                       ELSE @ \cup {argv[Len(argv)]}]

\* line 163: sudo cp src dst overwrites dst with the repository's stopword file
CopyStopwords(f, argv) ==
    [f EXCEPT !.stopwords = [p \in DOMAIN @ |-> IF p = argv[4] THEN argv[3] ELSE @[p]]]

\* lines 127, 131, 134: registering an apt source that is already registered adds nothing
AddSource(f, name) ==
    [f EXCEPT !.sources = IF name \in Range(@) THEN @ ELSE Append(@, name)]

PostgresPackages == {"postgresql-" \o POSTGRES_VERSION_MAP[c] : c \in DOMAIN POSTGRES_VERSION_MAP}

\* lines 63, 137: apt-get install; the first installation of a postgresql-<version>
\* package creates that version's main cluster
AptGetInstall(f, names, version) ==
    [f EXCEPT !.packages = @ \cup names,
              !.clusters = IF \E n \in names \ f.packages :
                                n \in PostgresPackages /\ n = "postgresql-" \o version
                           THEN @ \cup {version} ELSE @]

\* line 187
PgDropCluster(f, argv) == [f EXCEPT !.clusters = @ \ {argv[4]}]

\* line 188
PgCreateCluster(f, argv) == [f EXCEPT !.clusters = @ \cup {argv[6]}]

\* what a statement that succeeded has done to the machine
Effect(st, f, py2, version) ==
    LET a == st.argv IN
    IF st.kind = "open" THEN WriteBashProfile(f, a[2], py2)
    ELSE IF a[1] = "mkdir" THEN Mkdir(f, a)
    ELSE IF Arg(a, 2) = "cp" THEN CopyStopwords(f, a)
    ELSE IF Arg(a, 2) = "./scripts/lib/setup-apt-repo" THEN AddSource(f, "zulip")
    ELSE IF Arg(a, 2) = "add-apt-repository" THEN AddSource(f, a[4])
    ELSE IF Arg(a, 2) = "apt-get" /\ "install" \in Range(a)
         THEN AptGetInstall(f, Range(a) \ {"sudo", "apt-get", "-y", "install",
                                            "--no-install-recommends"}, version)
    ELSE IF Arg(a, 2) = "pg_dropcluster" THEN PgDropCluster(f, a)
    ELSE IF Arg(a, 2) = "pg_createcluster" THEN PgCreateCluster(f, a)
    ELSE f

\* a command that cannot succeed because what it creates is already there
FailsBecauseExists(st, f) ==
    LET a == st.argv IN
    \/ st.kind = "run" /\ a[1] = "mkdir" /\ Arg(a, 2) # "-p" /\ a[Len(a)] \in f.dirs
    \/ st.kind = "run" /\ Arg(a, 2) = "pg_createcluster" /\ a[6] \in f.clusters

(***************************************************************************)
(* The run.                                                                *)
(***************************************************************************)
NoError == [type |-> "", line |-> 0]

Entry(st, ok, exists) ==
    [line |-> st.line, kind |-> st.kind, argv |-> st.argv, ok |-> ok, exists |-> exists]

\* an exception swallowed at top level: the process ends with status 0
Exit1Swallowed(type, line) ==
    /\ pc' = "exited"
    /\ exit_code' = 0
    /\ error' = [type |-> type, line |-> line]

\* an uncaught exception or sys.exit(1): the interpreter exits with status 1
Exit1(type, line) ==
    /\ pc' = "exited"
    /\ exit_code' = 1
    /\ error' = [type |-> type, line |-> line]

Init ==
    /\ TRAVIS \in BOOLEAN
    /\ PRODUCTION_TRAVIS \in BOOLEAN
    /\ DOCKER \in BOOLEAN
    /\ PY2 \in BOOLEAN
    /\ host \in [git : BOOLEAN, architecture : Architectures,
                 vendor : Vendors, codename : Codenames]
    /\ arch = ""
    /\ vendor = ""
    /\ codename = ""
    /\ POSTGRES_VERSION = ""
    /\ pc = "git_check"
    /\ idx = 1
    /\ log = << >>
    /\ stdout = << >>
    /\ error = NoError
    /\ exit_code = 0
    /\ initial_fs \in {FreshMachine, UsedMachine}
    /\ fs = initial_fs
    /\ node_modules_islink \in BOOLEAN
    /\ invocation = 1
    /\ previous_exit = -1

\* lines 46-49 without the sys.exit(1) of line 50
GitCheckWithoutExit ==
    /\ pc = "git_check"
    /\ stdout' = IF ~host.git
                 THEN Append(stdout, "Error: No Zulip git repository present!")
                 ELSE stdout
    /\ pc' = "arch_check"
    /\ UNCHANGED <<flagvars, arch, vendor, codename, POSTGRES_VERSION, idx, log, fs,
                   exit_code, error, node_modules_islink, invocation, previous_exit>>

\* lines 46-50
GitCheck ==
    /\ pc = "git_check"
    /\ IF ~host.git
       THEN /\ stdout' = Append(stdout, "Error: No Zulip git repository present!")
            /\ Exit1("SystemExit", 50)
       ELSE /\ pc' = "arch_check"
            /\ UNCHANGED <<stdout, exit_code, error>>
    /\ UNCHANGED <<flagvars, arch, vendor, codename, POSTGRES_VERSION, idx, log, fs,
                   node_modules_islink, invocation, previous_exit>>

\* lines 52-57 with the final else treating every other answer as 32-bit
ArchOfElseI386(architecture) ==
    IF architecture = "64bit" THEN "amd64" ELSE "i386"

\* lines 52-57: the value given to arch ("" when the else branch is taken)
ArchOf(architecture) ==
    IF architecture = "64bit" THEN "amd64"
    ELSE IF architecture = "32bit" THEN "i386"
    ELSE ""

\* lines 52-58
ArchCheck ==
    /\ pc = "arch_check"
    /\ IF ArchOf(host.architecture) # ""
       THEN /\ arch' = ArchOf(host.architecture)
            /\ pc' = "module_commands"
            /\ UNCHANGED <<stdout, exit_code, error>>
       ELSE /\ stdout' = Append(stdout, "Only x86 is supported")
            /\ Exit1("SystemExit", 58)
            /\ UNCHANGED arch
    /\ idx' = 1
    /\ UNCHANGED <<flagvars, vendor, codename, POSTGRES_VERSION, log, fs,
                   node_modules_islink, invocation, previous_exit>>

\* lines 62-65: apt-get update, apt-get install, lsb_release -is, lsb_release -cs
ModuleCommand ==
    /\ pc = "module_commands"
    /\ LET st == ModuleCommands[idx] IN
       \E ok \in BOOLEAN :
         /\ log' = Append(log, Entry(st, ok, FALSE))
         /\ IF ok
            THEN /\ fs' = Effect(st, fs, PY2, POSTGRES_VERSION)
                 /\ vendor' = IF st.line = 64 THEN host.vendor ELSE vendor
                 /\ codename' = IF st.line = 65 THEN host.codename ELSE codename
                 /\ IF idx = Len(ModuleCommands)
                    THEN pc' = "platform_check" /\ idx' = 1
                    ELSE pc' = pc /\ idx' = idx + 1
                 /\ UNCHANGED <<exit_code, error>>
            ELSE /\ Exit1("CalledProcessError", st.line)
                 /\ UNCHANGED <<fs, vendor, codename, idx>>
    /\ UNCHANGED <<flagvars, arch, POSTGRES_VERSION, stdout, node_modules_islink,
                   invocation, previous_exit>>

\* the check of line 66 with the vendor test left out
PlatformSupportedAnyVendor(v, c) ==
    \E w \in DOMAIN SUPPORTED_PLATFORMS : c \in SUPPORTED_PLATFORMS[w]

\* line 66: vendor in SUPPORTED_PLATFORMS and codename in SUPPORTED_PLATFORMS[vendor]
PlatformSupported(v, c) ==
    v \in DOMAIN SUPPORTED_PLATFORMS /\ c \in SUPPORTED_PLATFORMS[v]

\* lines 66-68
PlatformCheck ==
    /\ pc = "platform_check"
    /\ IF ~PlatformSupported(vendor, codename)
       THEN /\ stdout' = Append(stdout, "Unsupported platform")
            /\ Exit1("SystemExit", 68)
       ELSE /\ pc' = "tables"
            /\ UNCHANGED <<stdout, exit_code, error>>
    /\ UNCHANGED <<flagvars, arch, vendor, codename, POSTGRES_VERSION, idx, log, fs,
                   node_modules_islink, invocation, previous_exit>>

\* lines 70-107, 219-220: POSTGRES_VERSION = POSTGRES_VERSION_MAP[codename], then main()
ResolveTables ==
    /\ pc = "tables"
    /\ IF codename \in DOMAIN POSTGRES_VERSION_MAP
       THEN /\ POSTGRES_VERSION' = POSTGRES_VERSION_MAP[codename]
            /\ pc' = "main"
            /\ UNCHANGED <<exit_code, error>>
       ELSE /\ Exit1("KeyError", 74)
            /\ UNCHANGED POSTGRES_VERSION
    /\ idx' = 1
    /\ UNCHANGED <<flagvars, arch, vendor, codename, log, stdout, fs,
                   node_modules_islink, invocation, previous_exit>>

\* control returns to main() after statement idx
Continue ==
    /\ pc' = "main"
    /\ idx' = idx + 1
    /\ UNCHANGED <<exit_code, error>>

\* a command run without checking its exit status: main() goes on after a failure
FailUnchecked(st) ==
    /\ Continue
    /\ UNCHANGED fs

\* run() of a command that exits non-zero raises CalledProcessError (open() raises
\* IOError); outside a try block the exception leaves main() and ends the process
Fail(st) ==
    /\ Exit1(IF st.kind = "open" THEN "IOError" ELSE "CalledProcessError", st.line)
    /\ UNCHANGED <<fs, idx>>

\* lines 127, 136-201: one statement of main() outside the try/except sites
RunStep ==
    /\ pc = "main"
    /\ idx <= Len(Plan)
    /\ Plan[idx].kind # "try"
    /\ LET st == Plan[idx] IN
       IF st.line = 137 /\ codename \notin DOMAIN APT_DEPENDENCIES
       THEN /\ Exit1("KeyError", 137)
            /\ UNCHANGED <<log, fs, idx>>
       ELSE \E ok \in BOOLEAN :
              LET done == ok /\ ~FailsBecauseExists(st, fs) IN
              /\ log' = Append(log, Entry(st, done, FailsBecauseExists(st, fs)))
              /\ IF done
                 THEN /\ fs' = Effect(st, fs, PY2, POSTGRES_VERSION)
                      /\ Continue
                 ELSE Fail(st)
    /\ UNCHANGED <<flagvars, arch, vendor, codename, POSTGRES_VERSION, stdout,
                   node_modules_islink, invocation, previous_exit>>

\* lines 130-132: the first add-apt-repository; CalledProcessError is caught
AddGroonga ==
    /\ pc = "main"
    /\ idx <= Len(Plan)
    /\ Plan[idx].line = 130
    /\ \E ok \in BOOLEAN :
         /\ log' = Append(log, Entry(St(131, "run", ADD_GROONGA), ok, FALSE))
         /\ IF ok
            THEN /\ fs' = Effect(St(131, "run", ADD_GROONGA), fs, PY2, POSTGRES_VERSION)
                 /\ Continue
            ELSE /\ pc' = "groonga_except"
                 /\ UNCHANGED <<fs, idx, exit_code, error>>
    /\ UNCHANGED <<flagvars, arch, vendor, codename, POSTGRES_VERSION, stdout,
                   node_modules_islink, invocation, previous_exit>>

\* the handler of lines 132-134 without the print of line 133
GroongaWarnSilent ==
    /\ pc = "groonga_except"
    /\ pc' = "groonga_retry"
    /\ UNCHANGED <<flagvars, arch, vendor, codename, POSTGRES_VERSION, idx, log, stdout,
                   error, exit_code, fs, node_modules_islink, invocation, previous_exit>>

\* line 133
GroongaWarn ==
    /\ pc = "groonga_except"
    /\ stdout' = Append(stdout, WARNING_GROONGA)
    /\ pc' = "groonga_retry"
    /\ UNCHANGED <<flagvars, arch, vendor, codename, POSTGRES_VERSION, idx, log, error,
                   exit_code, fs, node_modules_islink, invocation, previous_exit>>

\* line 134 with the failure of the second attempt ignored
GroongaRetryIgnoresFailure ==
    /\ pc = "groonga_retry"
    /\ \E ok \in BOOLEAN :
         /\ log' = Append(log, Entry(St(134, "run", ADD_GROONGA), ok, FALSE))
         /\ fs' = IF ok THEN Effect(St(134, "run", ADD_GROONGA), fs, PY2, POSTGRES_VERSION)
                  ELSE fs
         /\ Continue
    /\ UNCHANGED <<flagvars, arch, vendor, codename, POSTGRES_VERSION, stdout,
                   node_modules_islink, invocation, previous_exit>>

\* line 134: the second add-apt-repository, inside the handler, is not guarded
GroongaRetry ==
    /\ pc = "groonga_retry"
    /\ \E ok \in BOOLEAN :
         /\ log' = Append(log, Entry(St(134, "run", ADD_GROONGA), ok, FALSE))
         /\ IF ok
            THEN /\ fs' = Effect(St(134, "run", ADD_GROONGA), fs, PY2, POSTGRES_VERSION)
                 /\ Continue
            ELSE /\ Exit1("CalledProcessError", 134)
                 /\ UNCHANGED <<fs, idx>>
    /\ UNCHANGED <<flagvars, arch, vendor, codename, POSTGRES_VERSION, stdout,
                   node_modules_islink, invocation, previous_exit>>

\* lines 208-209: node_modules is a link and is removed as root, inside the try
NodeRemoveLink ==
    /\ pc = "main"
    /\ idx <= Len(Plan)
    /\ Plan[idx].line = 205
    /\ node_modules_islink
    /\ \E ok \in BOOLEAN :
         /\ log' = Append(log, Entry(St(209, "run", RM_NODE_MODULES), ok, FALSE))
         /\ IF ok
            THEN /\ node_modules_islink' = FALSE
                 /\ pc' = "node_setup"
            ELSE /\ pc' = "node_except"
                 /\ UNCHANGED node_modules_islink
    /\ UNCHANGED <<flagvars, arch, vendor, codename, POSTGRES_VERSION, idx, stdout, error,
                   exit_code, fs, invocation, previous_exit>>

\* line 208: node_modules is no link
NodeSkipRemove ==
    /\ pc = "main"
    /\ idx <= Len(Plan)
    /\ Plan[idx].line = 205
    /\ ~node_modules_islink
    /\ pc' = "node_setup"
    /\ UNCHANGED <<flagvars, arch, vendor, codename, POSTGRES_VERSION, idx, log, stdout,
                   error, exit_code, fs, node_modules_islink, invocation, previous_exit>>

\* lines 210-211: setup_node_modules() inside the try
NodeSetup ==
    /\ pc = "node_setup"
    /\ \E ok \in BOOLEAN :
         /\ log' = Append(log, Entry(St(210, "call", SETUP_NODE_MODULES), ok, FALSE))
         /\ IF ok
            THEN Continue
            ELSE /\ pc' = "node_except"
                 /\ UNCHANGED <<idx, exit_code, error>>
    /\ UNCHANGED <<flagvars, arch, vendor, codename, POSTGRES_VERSION, stdout, fs,
                   node_modules_islink, invocation, previous_exit>>

\* line 212
NodeWarn ==
    /\ pc = "node_except"
    /\ stdout' = Append(stdout, WARNING_NPM)
    /\ pc' = "node_retry"
    /\ UNCHANGED <<flagvars, arch, vendor, codename, POSTGRES_VERSION, idx, log, error,
                   exit_code, fs, node_modules_islink, invocation, previous_exit>>

\* line 213 with a failed retry retried once more
NodeRetryRetriesAgain ==
    /\ pc = "node_retry"
    /\ \E ok \in BOOLEAN :
         /\ log' = Append(log, Entry(St(213, "call", SETUP_NODE_MODULES), ok, FALSE))
         /\ IF ok
            THEN Continue
            ELSE IF \E i \in 1..Len(log) : log[i].line = 213
            THEN /\ Exit1("CalledProcessError", 213)
                 /\ UNCHANGED idx
            ELSE /\ pc' = "node_retry"
                 /\ UNCHANGED <<idx, exit_code, error>>
    /\ UNCHANGED <<flagvars, arch, vendor, codename, POSTGRES_VERSION, stdout, fs,
                   node_modules_islink, invocation, previous_exit>>

\* line 213: setup_node_modules() inside the handler is not guarded
NodeRetry ==
    /\ pc = "node_retry"
    /\ \E ok \in BOOLEAN :
         /\ log' = Append(log, Entry(St(213, "call", SETUP_NODE_MODULES), ok, FALSE))
         /\ IF ok
            THEN Continue
            ELSE /\ Exit1("CalledProcessError", 213)
                 /\ UNCHANGED idx
    /\ UNCHANGED <<flagvars, arch, vendor, codename, POSTGRES_VERSION, stdout, fs,
                   node_modules_islink, invocation, previous_exit>>

\* lines 215-217, 220: the success message, return 0, sys.exit(0)
Succeed ==
    /\ pc = "main"
    /\ idx > Len(Plan)
    /\ stdout' = Append(stdout, SUCCESS_MESSAGE)
    /\ pc' = "exited"
    /\ exit_code' = 0
    /\ UNCHANGED <<flagvars, arch, vendor, codename, POSTGRES_VERSION, idx, log, error,
                   fs, node_modules_islink, invocation, previous_exit>>

\* the operator starts the script again on the same machine with the same flags
Reinvoke ==
    /\ pc = "exited"
    /\ invocation < MaxInvocations
    /\ invocation' = invocation + 1
    /\ previous_exit' = exit_code
    /\ pc' = "git_check"
    /\ idx' = 1
    /\ arch' = ""
    /\ vendor' = ""
    /\ codename' = ""
    /\ POSTGRES_VERSION' = ""
    /\ log' = << >>
    /\ stdout' = << >>
    /\ error' = NoError
    /\ exit_code' = 0
    /\ node_modules_islink' \in BOOLEAN
    /\ UNCHANGED <<flagvars, fs>>

Next ==
    \/ GitCheck
    \/ ArchCheck
    \/ ModuleCommand
    \/ PlatformCheck
    \/ ResolveTables
    \/ RunStep
    \/ AddGroonga
    \/ GroongaWarn
    \/ GroongaRetry
    \/ NodeRemoveLink
    \/ NodeSkipRemove
    \/ NodeSetup
    \/ NodeWarn
    \/ NodeRetry
    \/ Succeed
    \/ Reinvoke

Spec == Init /\ [][Next]_vars

\* one invocation of the script, from its start to its exit
NextOneRun ==
    \/ GitCheck
    \/ ArchCheck
    \/ ModuleCommand
    \/ PlatformCheck
    \/ ResolveTables
    \/ RunStep
    \/ AddGroonga
    \/ GroongaWarn
    \/ GroongaRetry
    \/ NodeRemoveLink
    \/ NodeSkipRemove
    \/ NodeSetup
    \/ NodeWarn
    \/ NodeRetry
    \/ Succeed

OneRun == Init /\ [][NextOneRun]_vars

TypeOK ==
    /\ pc \in {"git_check", "arch_check", "module_commands", "platform_check", "tables",
               "main", "groonga_except", "groonga_retry", "node_setup", "node_except",
               "node_retry", "exited"}
    /\ exit_code \in {0, 1}
    /\ invocation \in 1..MaxInvocations

(***************************************************************************)
(* Properties.                                                             *)
(***************************************************************************)
Entries == {log[i] : i \in 1..Len(log)}

InSupportMatrix(v, c) ==
    \E w \in DOMAIN SUPPORTED_PLATFORMS : w = v /\ c \in SUPPORTED_PLATFORMS[w]

PlatformDetected == vendor # "" /\ codename # ""

\* a statement of main(): lines 120-217
InMain(e) == e.line >= 120

\* C1: when the detected (vendor, codename) pair is not in SUPPORTED_PLATFORMS, no
\* statement of main() is ever executed, the run never gets past the platform check,
\* and it ends with a non-zero exit status.
C1_UnsupportedPlatformRunsNoStep ==
    (PlatformDetected /\ ~InSupportMatrix(vendor, codename)) =>
        /\ \A e \in Entries : ~InMain(e)
        /\ pc \in {"platform_check", "exited"}
        /\ pc = "exited" => exit_code # 0

C1_Witness ==
    /\ pc = "exited"
    /\ vendor = "Debian" /\ codename = "trusty"
    /\ error = [type |-> "SystemExit", line |-> 68]
    /\ exit_code = 1
    /\ Len(log) = 4

\* a command that only reads the host's identity
ReadOnly(e) == e.argv[1] = "lsb_release"

PlatformAccepted ==
    \/ pc \in {"tables", "main", "groonga_except", "groonga_retry", "node_setup",
               "node_except", "node_retry"}
    \/ pc = "exited" /\ (exit_code = 0 \/ error.line > 68)

\* C2: no mutating external command is issued before platform validation has accepted
\* the host: until then every command issued is a read-only introspection command.
C2_NoMutationBeforeValidation ==
    ~PlatformAccepted => \A e \in Entries : ReadOnly(e)

\* C3: when the architecture is neither 64bit nor 32bit the run issues no external
\* command at all, never gets past the architecture check, and exits non-zero.
C3_UnsupportedArchitectureIssuesNothing ==
    host.architecture \notin {"64bit", "32bit"} =>
        /\ log = << >>
        /\ pc \in {"git_check", "arch_check", "exited"}
        /\ pc = "exited" => exit_code # 0

C3_Witness ==
    /\ pc = "exited"
    /\ host.git
    /\ host.architecture = "ELF"
    /\ error = [type |-> "SystemExit", line |-> 58]
    /\ exit_code = 1
    /\ log = << >>

\* the statements inside the two try/except sites (lines 130-134 and 205-213)
RetrySiteLines == {131, 134, 209, 210, 213}

Failed(e) == ~e.ok

Printed(msg) == \E i \in 1..Len(stdout) : stdout[i] = msg

\* C4: a failure of a statement outside the two retry sites halts the run: the failed
\* statement is the last one issued, the success message is not printed, and the run
\* has ended with a non-zero exit status.
C4_FailureOutsideRetrySitesHalts ==
    \A i \in 1..Len(log) :
        (Failed(log[i]) /\ log[i].line \notin RetrySiteLines) =>
            /\ i = Len(log)
            /\ pc = "exited"
            /\ exit_code # 0
            /\ ~Printed(SUCCESS_MESSAGE)

C4_Witness ==
    /\ pc = "exited"
    /\ exit_code = 1
    /\ Len(log) > 0
    /\ Failed(log[Len(log)])
    /\ log[Len(log)].argv = <<"scripts/setup/generate_secrets.py", "--development">>
    /\ error = [type |-> "CalledProcessError", line |-> 180]

Count(lines) == Cardinality({i \in 1..Len(log) : log[i].line \in lines})

At(line) == {e \in Entries : e.line = line}

LastLine == IF log = << >> THEN 0 ELSE log[Len(log)].line

\* the retry discipline of one site: `first` are the lines of the try body whose failure
\* is caught, `body` the line of the operation in the try body, `second` the line of the
\* operation in the handler
RetryDiscipline(first, body, second, handler) ==
    /\ Count({body}) <= 1
    /\ Count({second}) <= 1
    /\ (\E e \in At(body) : e.ok) => At(second) = {}
    /\ At(second) # {} =>
          \E i, j \in 1..Len(log) :
             i < j /\ log[i].line \in first /\ Failed(log[i]) /\ log[j].line = second
    /\ (\E e \in At(second) : e.ok) =>
          /\ error.line \notin (first \cup {second})
          /\ pc \notin handler
    /\ (\E e \in At(second) : Failed(e)) =>
          /\ pc = "exited"
          /\ exit_code # 0
          /\ error = [type |-> "CalledProcessError", line |-> second]
          /\ LastLine = second
    /\ ((\E e \in Entries : e.line \in first /\ Failed(e)) /\ At(second) = {}) =>
          pc \in handler

\* C5: each of the two retried operations is attempted at most twice per run: once when
\* the first attempt succeeds; a second time only after a failed first attempt, and then
\* the run goes on when the second attempt succeeds and ends in failure with the second
\* attempt's error, with no further attempt, when it fails.
C5_AtMostTwoAttempts ==
    /\ RetryDiscipline({131}, 131, 134, {"groonga_except", "groonga_retry"})
    /\ RetryDiscipline({209, 210}, 210, 213, {"node_except", "node_retry"})
    /\ Count({131, 134}) <= 2
    /\ Count({210, 213}) <= 2

C5_Witness ==
    /\ pc = "exited"
    /\ \E e \in At(131) : Failed(e)
    /\ \E e \in At(134) : e.ok
    /\ \E e \in At(210) : Failed(e)
    /\ \E e \in At(213) : Failed(e)
    /\ error = [type |-> "CalledProcessError", line |-> 213]

IsRetriedOperation(e) == e.argv = ADD_GROONGA \/ e.argv = SETUP_NODE_MODULES

\* C6: every external command other than the repository registration and the node-module
\* installation is attempted at most once per run and its first failure is fatal: it is
\* the last command of the run and the run ends with a non-zero exit status.
C6_OnlyTwoOperationsRetried ==
    \A i \in 1..Len(log) :
        ~IsRetriedOperation(log[i]) =>
            /\ \A j \in 1..Len(log) : log[j].argv = log[i].argv /\ log[j].line = log[i].line
                                        => j = i
            /\ Failed(log[i]) => /\ i = Len(log)
                                 /\ pc = "exited"
                                 /\ exit_code # 0

OkAt(lines) == \E e \in Entries : e.line \in lines /\ e.ok

\* every statement of the run finished successfully, a try/except site counting as
\* successful when its try body or its handler did
RanToCompletion ==
    /\ \A i \in 1..Len(ModuleCommands) : OkAt({ModuleCommands[i].line})
    /\ PlatformDetected /\ InSupportMatrix(vendor, codename)
    /\ \A i \in 1..Len(Plan) :
          IF Plan[i].line = 130 THEN OkAt({131, 134})
          ELSE IF Plan[i].line = 205 THEN OkAt({210, 213})
          ELSE OkAt({Plan[i].line})

\* C7: a run that has ended has exit status 0 exactly when it ran to full completion.
C7_ExitZeroIffComplete ==
    pc = "exited" => (exit_code = 0 <=> RanToCompletion)

C7_Witness ==
    /\ pc = "exited"
    /\ exit_code = 0
    /\ RanToCompletion
    /\ Printed(SUCCESS_MESSAGE)
    /\ \E e \in At(131) : Failed(e)
    /\ TRAVIS /\ DOCKER

AllSucceeded == \A e \in Entries : e.ok

HostPassesGates ==
    /\ host.git
    /\ host.architecture \in {"64bit", "32bit"}
    /\ InSupportMatrix(host.vendor, host.codename)

RECURSIVE ApplyAll(_, _, _, _)
ApplyAll(steps, f, py2, version) ==
    IF steps = << >> THEN f
    ELSE ApplyAll(Tail(steps), Effect(Head(steps), f, py2, version), py2, version)

\* the resources a single run in which nothing fails leaves on the machine it started on
AfterOneSuccessfulRun ==
    LET version == POSTGRES_VERSION_MAP[host.codename] IN
    ApplyAll(ModuleCommands \o
             MainSteps(TRAVIS, PRODUCTION_TRAVIS, DOCKER, PY2, host.codename, version),
             initial_fs, PY2, version)

NoDuplicates(seq) == \A i, j \in 1..Len(seq) : seq[i] = seq[j] => i = j

\* C8: no statement ever fails because the resource it creates already exists, and a
\* re-invocation with the same flags in which every command succeeds, after a run that
\* failed anywhere or completed, ends with exit status 0 and leaves exactly the
\* resources of a single successful run, none of them duplicated.
C8_ReinvocationIsSafe ==
    /\ \A e \in Entries : ~e.exists
    /\ (invocation >= 2 /\ pc = "exited" /\ HostPassesGates /\ AllSucceeded) =>
          /\ exit_code = 0
          /\ fs = AfterOneSuccessfulRun
          /\ NoDuplicates(fs.sources)
          /\ NoDuplicates(fs.profile)
          /\ {LOG_DIR_PATH, UPLOAD_DIR_PATH, TEST_UPLOAD_DIR_PATH, COVERAGE_DIR_PATH,
              LINECOVERAGE_DIR_PATH, NODE_TEST_COVERAGE_DIR_PATH} \subseteq fs.dirs

C8_Witness ==
    /\ invocation = 2
    /\ previous_exit = 1
    /\ pc = "exited"
    /\ exit_code = 0
    /\ AllSucceeded
    /\ DOCKER /\ ~TRAVIS
    /\ initial_fs = UsedMachine
    /\ fs.profile = ProfileLines(PY2)
    /\ fs.clusters = {POSTGRES_VERSION}

IsServiceRestart(e) == Arg(e.argv, 2) = "service" /\ Arg(e.argv, 4) = "restart"

IsClusterDrop(e) == Arg(e.argv, 2) = "pg_dropcluster"

IsClusterCreate(e) == Arg(e.argv, 2) = "pg_createcluster"

IsDatabaseBootstrap(e) ==
    \/ IsClusterDrop(e)
    \/ IsClusterCreate(e)
    \/ e.argv[1] \in {"scripts/setup/configure-rabbitmq", "tools/setup/postgres-init-dev-db",
                      "tools/do-destroy-rebuild-database", "tools/setup/postgres-init-test-db",
                      "tools/do-destroy-rebuild-test-database"}
    \/ Arg(e.argv, 3) = "compilemessages"

\* C9: in a run started with --production-travis no service restart and no database
\* bootstrap command is executed, whatever the other flags are.
C9_ProductionTravisSkipsServicesAndDatabase ==
    PRODUCTION_TRAVIS => \A e \in Entries : ~IsServiceRestart(e) /\ ~IsDatabaseBootstrap(e)

IsCiEnvironmentSetup(e) == e.argv[1] = "setup_virtualenv"

IsDevEnvironmentSetup(e) == e.argv[1] = "setup_venvs.main"

\* the environment-setup branch (lines 139-154) is behind the run
PastEnvironmentSetup == \E e \in Entries : e.line >= 157

\* the service-restart branch (lines 181-190) is behind the run
PastServiceBranch == \E e \in Entries : e.line >= 191

EnvironmentSetupFollowsCiFlag ==
    /\ ~TRAVIS => \A e \in Entries : ~IsCiEnvironmentSetup(e)
    /\ TRAVIS => \A e \in Entries : ~IsDevEnvironmentSetup(e)
    /\ PastEnvironmentSetup =>
          IF TRAVIS THEN \E e \in Entries : IsCiEnvironmentSetup(e) /\ e.ok
          ELSE \E e \in Entries : IsDevEnvironmentSetup(e) /\ e.ok

ClusterRebuilt ==
    /\ \E e \in Entries : IsClusterDrop(e) /\ e.ok
    /\ \E e \in Entries : IsClusterCreate(e) /\ e.ok

NoClusterCommand == \A e \in Entries : ~IsClusterDrop(e) /\ ~IsClusterCreate(e)

\* C10 as stated: the CI flag decides only the environment-setup step and the
\* containerized flag alone decides the cluster drop and create: with it, a run that is
\* past the service branch has executed both; without it, neither is ever executed.
C10_Original_FlagsOrthogonal ==
    /\ EnvironmentSetupFollowsCiFlag
    /\ (DOCKER /\ PastServiceBranch) => ClusterRebuilt
    /\ ~DOCKER => NoClusterCommand

\* C10 as amended: the cluster drop and create are executed exactly when the
\* containerized flag is set and the plain CI branch (--travis without
\* --production-travis) is not taken; the CI flag decides the environment-setup step.
C10_ClusterStepsNeedDockerAndNoPlainCi ==
    /\ EnvironmentSetupFollowsCiFlag
    /\ (DOCKER /\ ~(TRAVIS /\ ~PRODUCTION_TRAVIS) /\ PastServiceBranch) => ClusterRebuilt
    /\ (~DOCKER \/ (TRAVIS /\ ~PRODUCTION_TRAVIS)) => NoClusterCommand

C10_Witness ==
    /\ DOCKER /\ TRAVIS /\ PRODUCTION_TRAVIS
    /\ PastServiceBranch
    /\ ClusterRebuilt
    /\ \E e \in Entries : IsCiEnvironmentSetup(e) /\ e.ok

IsNodeSetup(e) ==
    \/ e.argv = RM_NODE_MODULES
    \/ e.argv = SETUP_NODE_MODULES
    \/ Arg(e.argv, 2) = "tools/setup/install-node"

\* the phase a statement belongs to, judged by what it does; nodePhase is the phase the
\* node installation is counted in
PhaseOf(e, nodePhase) ==
    IF e.kind \in {"check_call", "subprocess_text_output"} THEN 1
    ELSE IF Arg(e.argv, 2) \in {"./scripts/lib/setup-apt-repo", "add-apt-repository"} THEN 2
    ELSE IF Arg(e.argv, 2) = "apt-get" THEN 3
    ELSE IF IsCiEnvironmentSetup(e) \/ IsDevEnvironmentSetup(e) THEN 4
    ELSE IF IsNodeSetup(e) THEN nodePhase
    ELSE IF IsServiceRestart(e) \/ IsDatabaseBootstrap(e) THEN 6
    ELSE 5

PhasesInOrder(nodePhase) ==
    \A i, j \in 1..Len(log) :
        i < j => PhaseOf(log[i], nodePhase) <= PhaseOf(log[j], nodePhase)

\* the next statement is one whose failure is not caught
AtUnguardedStatement ==
    \/ pc = "module_commands"
    \/ pc = "main" /\ idx <= Len(Plan) /\ Plan[idx].kind # "try"
    \/ pc \in {"groonga_retry", "node_retry"}

FailureCanBeEntered ==
    AtUnguardedStatement => ENABLED (NextOneRun /\ pc' = "exited" /\ exit_code' = 1)

\* C11 as stated: the statements of a run are issued in phase order, the node
\* installation counting as environment setup (phase 4), so none of it is executed
\* after resource initialization, a service restart or database bootstrap has started.
C11_Original_EnvironmentBeforeResources ==
    PhasesInOrder(4)

\* C11 as amended: the statements of a run are issued in the order platform gate,
\* repositories, packages, virtualenv setup, resources, service restart and database
\* bootstrap, node installation; the node installation (install-node, node modules) is
\* the last phase; and before every statement whose failure is not caught, in whatever
\* phase, the run can end in failure.
C11_PhasesInOrderNodeLast ==
    /\ PhasesInOrder(7)
    /\ FailureCanBeEntered

C11_Witness ==
    /\ \E e \in Entries : IsDatabaseBootstrap(e) /\ e.ok
    /\ \E e \in Entries : IsCiEnvironmentSetup(e) /\ e.ok
    /\ \E e \in Entries : e.argv = SETUP_NODE_MODULES
    /\ pc = "exited"
    /\ error.line = 213

Warnings(msg) == Cardinality({i \in 1..Len(stdout) : stdout[i] = msg})

FirstAttemptFailed(first) == \E e \in Entries : e.line \in first /\ Failed(e)

\* one site: the warning is printed once, after the failure of the try body and before
\* the handler's attempt, and not otherwise
WarningDiscipline(msg, first, second, caught) ==
    /\ Warnings(msg) <= 1
    /\ Warnings(msg) = 1 <=> (FirstAttemptFailed(first) /\ pc # caught)
    /\ At(second) # {} => Warnings(msg) = 1

SupportedCodenames == UNION {SUPPORTED_PLATFORMS[v] : v \in DOMAIN SUPPORTED_PLATFORMS}

\* the database packages of one version, in the order the catalog lists them
DatabasePackages(version) ==
    << "postgresql-" \o version,
       "postgresql-" \o version \o "-tsearch-extras",
       "postgresql-" \o version \o "-pgroonga" >>

Resolved(c) == UBUNTU_COMMON_APT_DEPENDENCIES \o DatabasePackages(POSTGRES_VERSION_MAP[c])

\* C13: for every supported codename the package list is the common list followed by the
\* database packages of the version POSTGRES_VERSION_MAP gives for the codename; the
\* install command of a run carries exactly that list, in that order; the stopword
\* destination and the cluster commands of the run use the same version; and the lists
\* of xenial and trusty differ.
C13_CatalogMatchesVersionMap ==
    /\ \A c \in SupportedCodenames : APT_DEPENDENCIES[c] = Resolved(c)
    /\ APT_DEPENDENCIES["xenial"] # APT_DEPENDENCIES["trusty"]
    /\ \A e \in Entries :
          /\ e.line = 137 =>
                e.argv = <<"sudo", "apt-get", "-y", "install", "--no-install-recommends">>
                         \o Resolved(codename)
          /\ Arg(e.argv, 2) = "cp" =>
                e.argv[4] = "/usr/share/postgresql/" \o POSTGRES_VERSION_MAP[codename]
                            \o "/tsearch_data/"
          /\ IsClusterDrop(e) => e.argv[4] = POSTGRES_VERSION_MAP[codename]
          /\ IsClusterCreate(e) => e.argv[6] = POSTGRES_VERSION_MAP[codename]
    /\ POSTGRES_VERSION # "" => POSTGRES_VERSION = POSTGRES_VERSION_MAP[codename]

C13_Witness ==
    /\ codename = "xenial"
    /\ \E e \in Entries : e.line = 137 /\ e.ok /\ e.argv[Len(e.argv)] = "postgresql-9.5-pgroonga"
    /\ \E e \in Entries : Arg(e.argv, 2) = "cp" /\ e.ok
    /\ \E e \in Entries : IsClusterCreate(e) /\ e.ok /\ e.argv[6] = "9.5"

\* C14: the codenames of the support matrix, the keys of POSTGRES_VERSION_MAP and the
\* keys of APT_DEPENDENCIES are one set, and in a run that has passed the platform check
\* the lookups of the database version (line 74) and of the package list (line 137) are
\* defined: no run ends in a KeyError.
C14_TablesMutuallyComplete ==
    /\ SupportedCodenames = DOMAIN POSTGRES_VERSION_MAP
    /\ SupportedCodenames = DOMAIN APT_DEPENDENCIES
    /\ PlatformAccepted =>
          /\ codename \in DOMAIN POSTGRES_VERSION_MAP
          /\ codename \in DOMAIN APT_DEPENDENCIES
    /\ error.type # "KeyError"

C14_Witness ==
    /\ PlatformAccepted
    /\ pc = "main"
    /\ codename = "trusty"
    /\ POSTGRES_VERSION = "9.3"
    /\ \E e \in Entries : e.line = 137 /\ e.ok

ProfileStepDone == \E e \in Entries : e.kind = "open" /\ e.argv[1] = BASH_PROFILE /\ e.ok

C16_LinkRemovedBeforeNodeSetup ==
    (\E e \in Entries : e.argv = SETUP_NODE_MODULES) => ~node_modules_islink

IsPackageInstall(e) == e.kind = "run" /\ Arg(e.argv, 2) = "apt-get" /\ Arg(e.argv, 4) = "install"

IsIndexUpdate(e) == e.kind = "run" /\ e.argv = <<"sudo", "apt-get", "update">>

IsRepositorySetup(e) == Arg(e.argv, 2) = "./scripts/lib/setup-apt-repo"

IsPpaRegistration(e) == e.argv = ADD_GROONGA

IsStopwordCopy(e) == Arg(e.argv, 2) = "cp"

IsSecretGeneration(e) == e.argv[1] = "scripts/setup/generate_secrets.py"

IsRabbitmqRestart(e) == IsServiceRestart(e) /\ e.argv[3] = "rabbitmq-server"

\* a statement satisfying P succeeded before the i-th statement of the run
OkBefore(i, P(_)) == \E j \in 1..(i - 1) : P(log[j]) /\ log[j].ok

\* every statement of the service-restart branch for the flags of the run succeeded
\* before the i-th statement of the run
ServiceBranchFinishedBefore(i) ==
    LET branch == ServiceSteps(TRAVIS, PRODUCTION_TRAVIS, DOCKER, POSTGRES_VERSION) IN
    \A k \in 1..Len(branch) : \E j \in 1..(i - 1) : log[j].line = branch[k].line /\ log[j].ok

PackagePrerequisites ==
    \A i \in 1..Len(log) :
        /\ IsPackageInstall(log[i]) =>
              /\ OkBefore(i, IsRepositorySetup)
              /\ OkBefore(i, IsPpaRegistration)
              /\ OkBefore(i, IsIndexUpdate)
        /\ IsStopwordCopy(log[i]) => OkBefore(i, IsPackageInstall)

\* C17 as stated: package installation only after repository setup, PPA registration
\* and the index update; the stopword copy only after package installation; every
\* database bootstrap command, cluster drop and create included, only after secret
\* generation and after the whole service-restart branch of the run.
C17_Original_PrerequisitesFirst ==
    /\ PackagePrerequisites
    /\ \A i \in 1..Len(log) :
          IsDatabaseBootstrap(log[i]) =>
              /\ OkBefore(i, IsSecretGeneration)
              /\ ServiceBranchFinishedBefore(i)

\* C17 as amended: as stated for package installation and the stopword copy; the
\* database bootstrap commands of lines 193-198 run only after secret generation and
\* after the whole service-restart branch of the run; the cluster drop and create are
\* themselves part of the containerized service branch and run after secret generation
\* and the rabbitmq restart, the create after the drop, before the branch has finished.
C17_PrerequisitesFirstClusterInsideBranch ==
    /\ PackagePrerequisites
    /\ \A i \in 1..Len(log) :
          /\ (IsDatabaseBootstrap(log[i]) /\ ~IsClusterDrop(log[i]) /\ ~IsClusterCreate(log[i])) =>
                /\ OkBefore(i, IsSecretGeneration)
                /\ ServiceBranchFinishedBefore(i)
          /\ (IsClusterDrop(log[i]) \/ IsClusterCreate(log[i])) =>
                /\ OkBefore(i, IsSecretGeneration)
                /\ OkBefore(i, IsRabbitmqRestart)
                /\ ~ServiceBranchFinishedBefore(i)
          /\ IsClusterCreate(log[i]) => OkBefore(i, IsClusterDrop)

C17_Witness ==
    /\ DOCKER /\ ~TRAVIS /\ ~PRODUCTION_TRAVIS
    /\ \E e \in Entries : IsClusterCreate(e) /\ e.ok
    /\ \E e \in Entries : Arg(e.argv, 3) = "compilemessages" /\ e.ok
    /\ \E e \in Entries : IsStopwordCopy(e) /\ e.ok

\* every external command returns, so the interpreter always takes its next step
FairRun == OneRun /\ WF_vars(NextOneRun)

\* the statements of a run for its flags: the module-level commands, the statements of
\* main() (each try/except site once) and the removal of the node_modules link
StepSequenceLength == Len(ModuleCommands) + Len(Plan) + 1

CommandsBounded == Len(log) <= StepSequenceLength + 2

\* C18: every run eventually ends, in completion or in failure, and the number of
\* commands it issues never exceeds the length of its statement sequence plus one extra
\* attempt for each of the two retried operations.
C18_RunTerminatesWithBoundedCommands ==
    /\ []CommandsBounded
    /\ <>(pc = "exited" /\ (exit_code = 0 <=> error = NoError))

C18_Witness ==
    /\ pc = "exited"
    /\ exit_code = 1
    /\ DOCKER /\ ~TRAVIS /\ ~PRODUCTION_TRAVIS
    /\ Len(log) = StepSequenceLength + 2
    /\ Count({131, 134}) = 2
    /\ Count({209, 210, 213}) = 3

\* C19: when the project root has no .git entry the run exits with status 1 at line 50:
\* the architecture is never examined, the platform is never detected and no external
\* command is issued.
C19_NoGitExitsFirst ==
    ~host.git =>
        /\ log = << >>
        /\ arch = "" /\ vendor = "" /\ codename = ""
        /\ pc \in {"git_check", "exited"}
        /\ pc = "exited" => (exit_code = 1 /\ error = [type |-> "SystemExit", line |-> 50])
        /\ ~Printed("Only x86 is supported")

C19_Witness ==
    /\ ~host.git
    /\ host.architecture = "ELF"
    /\ pc = "exited"
    /\ exit_code = 1
    /\ stdout = <<"Error: No Zulip git repository present!">>

====
